---- MODULE Spec2Model ----
(***************************************************************************)
(* Photo ingestion and deletion pipeline of the photography portfolio:     *)
(* AdminService.upload_photo (src/src/services/admin_service.py), the      *)
(* image stores (src/src/dependencies/store.py), the Photo table           *)
(* (src/src/models/schema.py) and the delete_photos route                  *)
(* (src/src/routers/admin.py).                                             *)
(*                                                                         *)
(* Strings that the code takes apart (file names) are sequences of         *)
(* one-character strings; a path "uploads/<subdir>/<file_name>" is the     *)
(* tuple <<"uploads", subdir, file_name>>.                                 *)
(***************************************************************************)
EXTENDS Integers, Sequences, FiniteSets, TLC

VARIABLES
  envType,    \* Config.env_type
  photos,     \* committed rows of table "photo"
  blobs,      \* the image store (local disk or bucket): pairs <<path, content>>
  call,       \* per worker: the upload_photo call it runs or has run
  delResp,    \* the last delete_photos request and its response
  nUploads,   \* upload_photo calls begun
  nDeletes,   \* delete_photos requests served
  validation, \* the PhotoValidator of an upload request and how far it is
  users,      \* committed rows of table "user_account"
  reg,        \* per worker: the register_user request it runs or has run
  request,    \* the last request to a protected admin route
  probe       \* the last call of a query or function of the catalog, with
              \* its result

vars == <<envType, photos, blobs, call, delResp, nUploads, nDeletes,
          validation, users, reg, request, probe>>

----------------------------------------------------------------------------
(* Bounds of the model *)

\* upload_photo calls in one behaviour
MaxUploads == 2
\* delete_photos requests in one behaviour
MaxDeletes == 2
\* longest photo_ids list of a delete request
MaxIds == 2

\* request handlers that may run at the same time
Workers == {"w1", "w2"}

(* Inputs *)
\* file_name=None of test_upload_photo_with_none_filename
NoneName == <<"<None>">>
NameA == <<"a", ".", "j">>
NameB == <<"m", " ", "p", ".", "p">>

Upload(title, name, file_data, collection) ==
  [title |-> title, name |-> name, file_data |-> file_data,
   collection |-> collection]

\* the calls of upload_photo: "imgA" and "imgB" are images, "junk" is not,
\* "wide" is an image (a PNG) more than 65500 pixels wide
Uploads ==
  {Upload("sunset", NameA, "imgA", "nature"),
   Upload("dawn", NameB, "imgA", "about_me"),
   Upload("dawn", NameA, "imgB", "nature"),
   Upload("dawn", NameB, "imgB", "about_me"),
   Upload("sunset", NameB, "junk", "nature"),
   Upload("sunset", NoneName, "imgA", "nature"),
   Upload("dawn", NameA, "wide", "about_me")}

\* outcomes of uuid.uuid4().hex[:8]
Uuid8 == {<<"0", "0", "0", "0", "0", "0", "0", "1">>,
          <<"0", "0", "0", "0", "0", "0", "0", "2">>}
\* outcomes of a write to the store
PutOutcomes == {"ok", "open_failed", "write_failed"}

----------------------------------------------------------------------------
(* ContentAddresser: AdminService.get_hash, AdminService.sanitize_file *)

\* hashlib.sha256(file_data).hexdigest(): one digest per byte buffer
get_hash(file_data) == <<"sha256", file_data>>

\* truncation of the stem in sanitize_file: [:50]
StemMax == 50

RECURSIVE LastIndexOf(_, _, _)
LastIndexOf(s, c, i) ==
  IF i = 0 THEN 0
  ELSE IF s[i] = c THEN i ELSE LastIndexOf(s, c, i - 1)

\* Path(file_name).stem: the final component without its last suffix
PathStem(file_name) ==
  LET slash == LastIndexOf(file_name, "/", Len(file_name))
      base == SubSeq(file_name, slash + 1, Len(file_name))
      dot == LastIndexOf(base, ".", Len(base))
  IN IF dot <= 1 THEN base ELSE SubSeq(base, 1, dot - 1)

\* str.replace(" ", "_")
ReplaceSpaces(s) == [i \in 1..Len(s) |-> IF s[i] = " " THEN "_" ELSE s[i]]

Truncate(s, n) == IF Len(s) <= n THEN s ELSE SubSeq(s, 1, n)

\* f"{sanitized_stem}_{uuid.uuid4().hex[:8]}.jpeg"
sanitize_file(file_name, uuid8) ==
  Truncate(ReplaceSpaces(PathStem(file_name)), StemMax)
    \o <<"_">> \o uuid8 \o <<".", "j", "p", "e", "g">>

\* Path("uploads") / subdir / file_name
get_output_path(file_name, subdir) == <<"uploads", subdir, file_name>>

----------------------------------------------------------------------------
(* ImageCodec: AdminService._process_image *)

\* Image.open succeeds on the buffer
Decodable(file_data) == file_data # "junk"

\* img.save(bytes_arr, format="JPEG") succeeds: a JPEG has at most 65500
\* pixels a side, which the 300x300 thumbnail of a wider image keeps to and
\* the image in full does not (the encoder raises OSError)
Encodable(file_data, size) == ~(file_data = "wide" /\ size = "full")

\* _process_image(file, size) returns: it opened the image and encoded it
Derivable(file_data, size) ==
  Decodable(file_data) /\ Encodable(file_data, size)

\* bytes returned by _process_image(file, size): the JPEG of the given size
process_image(file_data, size) == <<"jpeg", size, file_data>>

----------------------------------------------------------------------------
(* PhotoCatalog: the photo table and the queries on it *)

\* a duplicate check that finds nothing
photo_hash_exists_never(hash) == FALSE

\* select(Photo).where(Photo.hash == hash) ... is not None
photo_hash_exists(hash) == \E p \in photos : p.hash = hash

\* select(Photo).where(Photo.id == id).scalar_one_or_none()
NoPhoto == [id |-> 0]
get_photo_by_id(id) ==
  IF \E p \in photos : p.id = id
  THEN CHOOSE p \in photos : p.id = id
  ELSE NoPhoto

\* id given to the next inserted row (integer primary key)
NextId == IF photos = {} THEN 1
          ELSE (CHOOSE m \in {p.id : p \in photos} :
                  \A p \in photos : p.id <= m) + 1

\* a photo table whose hash column is not unique
UniqueViolation_no_hash(photo) ==
  \E p \in photos :
    \/ p.file_name = photo.file_name
    \/ p.original_path = photo.original_path
    \/ p.thumbnail_path = photo.thumbnail_path
    \/ p.collection = photo.collection

\* the unique=True columns of Photo: the commit raises IntegrityError
UniqueViolation(photo) ==
  \E p \in photos :
    \/ p.hash = photo.hash
    \/ p.file_name = photo.file_name
    \/ p.original_path = photo.original_path
    \/ p.thumbnail_path = photo.thumbnail_path
    \/ p.collection = photo.collection

----------------------------------------------------------------------------
(* ObjectStore: the files under uploads/ or the objects of the bucket *)

Paths(store) == {b[1] : b \in store}

\* a write of `content` at `path` replaces what the path held
Put(store, path, content) ==
  {b \in store : b[1] # path} \cup {<<path, content>>}

Remove(store, path) == {b \in store : b[1] # path}

\* what open(path, "wb") / fp.write leave behind, by outcome of the write
Written(store, path, content, outcome) ==
  CASE outcome = "ok" -> Put(store, path, content)
    [] outcome = "write_failed" -> Put(store, path, "partial")
    [] OTHER -> store

\* LocalStore.upload_image: open the file for writing and write the bytes
LocalStore_upload_image(store, path, file_data, outcome) ==
  Written(store, path, file_data, outcome)

\* RemoteStore.upload_image: one put_object; the object is there or is not
RemoteStore_upload_image(store, path, file_data, outcome) ==
  IF outcome = "ok" THEN Put(store, path, file_data) ELSE store

\* parameters of ImageStore.upload_image, all without default
UploadImageParams == {"file_data", "path_to_save"}
\* keywords of the calls self.store.upload_image(params=, ttl=, file_data=)
UploadImageKeywords == {"params", "ttl", "file_data"}
\* Python binds a call by keywords only if they are the parameters
CallBinds(keywords, params) == keywords = params

\* RemoteStore.upload_image returns True, which Python compares as 1
UploadImageReturn == 1
\* the value _create_remote_* compare the result with: results != 200
UploadOkStatus == 200

RECURSIVE LocalStore_delete_images(_, _)
\* LocalStore.delete_images: unlink each path in turn; a missing file is
\* appended to errors
LocalStore_delete_images(image_paths, store) ==
  IF image_paths = << >>
  THEN [success |-> << >>, errors |-> << >>, store |-> store]
  ELSE LET path == Head(image_paths)
           found == path \in Paths(store)
           r == LocalStore_delete_images(
                  Tail(image_paths),
                  IF found THEN Remove(store, path) ELSE store)
       IN [success |-> IF found THEN <<path>> \o r.success ELSE r.success,
           errors |-> IF found THEN r.errors ELSE <<path>> \o r.errors,
           store |-> r.store]

\* the entries of image_paths that are (not) in `keys`, in request order
RECURSIVE Select(_, _, _)
Select(image_paths, keys, in) ==
  IF image_paths = << >> THEN << >>
  ELSE IF (Head(image_paths) \in keys) = in
       THEN <<Head(image_paths)>> \o Select(Tail(image_paths), keys, in)
       ELSE Select(Tail(image_paths), keys, in)

\* RemoteStore.delete_images: one delete_objects call; the service answers
\* with the keys it deleted and the keys it refused (`refused`)
RemoteStore_delete_images(image_paths, store, refused) ==
  [success |-> Select(image_paths, refused, FALSE),
   errors |-> Select(image_paths, refused, TRUE),
   store |-> {b \in store :
                b[1] \notin {image_paths[i] : i \in 1..Len(image_paths)}
                \/ b[1] \in refused}]

----------------------------------------------------------------------------
Idle == [pc |-> "idle"]
NoRequest == [status |-> "none"]
\* no PhotoValidator has been made
NoValidation == [pc |-> "none"]
\* no request to a protected route has come
NoProtected == [route |-> "none"]
\* nothing has been called
NoProbe == [op |-> "none"]

\* the variables of the admin router and of the catalog queries, before any
\* request
WebIdle ==
  /\ users = {}
  /\ reg = [w \in Workers |-> Idle]
  /\ request = NoProtected
  /\ probe = NoProbe

Init ==
  /\ envType \in {"development", "production"}
  /\ photos = {}
  /\ blobs = {}
  /\ call = [w \in Workers |-> Idle]
  /\ delResp = NoRequest
  /\ nUploads = 0
  /\ nDeletes = 0
  /\ validation = NoValidation
  /\ WebIdle

\* the call ends: it raises `error`, or returns `ret` when error = "ok"
Finished(c, error, ret) ==
  [pc |-> "done", seq |-> c.seq, title |-> c.title, name |-> c.name,
   file_data |-> c.file_data, collection |-> c.collection,
   puts_ok |-> c.puts_ok, error |-> error, ret |-> ret]

\* upload_photo, lines 257-261: hash, storage name, duplicate check.
\* Path(None) in sanitize_file raises TypeError before the check.
upload_begin(w, u, uuid8) ==
  /\ call[w].pc \in {"idle", "done"}
  /\ nUploads < MaxUploads
  /\ nUploads' = nUploads + 1
  /\ LET c == [pc |-> "thumbnail", seq |-> nUploads + 1, title |-> u.title,
               name |-> u.name, file_data |-> u.file_data,
               collection |-> u.collection, puts_ok |-> 0]
     IN call' = [call EXCEPT ![w] =
          IF u.name = NoneName
          THEN Finished(c, "TypeError", NoPhoto)
          ELSE IF photo_hash_exists(get_hash(u.file_data))
          THEN Finished(c, "ValueError", NoPhoto)
          ELSE c @@ [file_hash |-> get_hash(u.file_data),
                     file_name |-> sanitize_file(u.name, uuid8)]]
  /\ UNCHANGED <<probe, users, reg, validation, envType, photos, blobs, delResp, nDeletes>>

\* an upload_photo with the one clause `except Exception`
Reraised_generic(kind) == "Exception"

\* the exception upload_photo raises for one raised inside its try block:
\* except IOError -> IOError, except Exception -> Exception
Reraised(kind) == IF kind = "IOError" THEN "IOError" ELSE "Exception"

\* _create_local_thumbnail / _create_local_original: derive, then write the
\* file. Image.open raises UnidentifiedImageError, an OSError, on a buffer
\* that is no image; img.save raises OSError on one it cannot encode.
create_local(w, subdir, size, outcome, nextpc) ==
  LET c == call[w]
      path == get_output_path(c.file_name, subdir)
  IN IF ~Derivable(c.file_data, size)
     THEN /\ call' = [call EXCEPT ![w] = Finished(c, Reraised("IOError"), NoPhoto)]
          /\ blobs' = blobs
     ELSE /\ blobs' = Written(blobs, path, process_image(c.file_data, size), outcome)
          /\ call' = [call EXCEPT ![w] =
               IF outcome = "ok"
               THEN [c EXCEPT !.pc = nextpc, !.puts_ok = @ + 1]
               ELSE Finished(c, Reraised("IOError"), NoPhoto)]

\* _create_remote_thumbnail / _create_remote_original: self.store.upload_image
\* is called by keywords; its result is compared with 200
create_remote(w, subdir, content, outcome, nextpc) ==
  LET c == call[w]
      path == get_output_path(c.file_name, subdir)
  IN IF ~CallBinds(UploadImageKeywords, UploadImageParams)
     THEN /\ call' = [call EXCEPT ![w] = Finished(c, Reraised("TypeError"), NoPhoto)]
          /\ blobs' = blobs
     ELSE /\ blobs' = RemoteStore_upload_image(blobs, path, content, outcome)
          /\ call' = [call EXCEPT ![w] =
               IF outcome = "ok" /\ UploadImageReturn = UploadOkStatus
               THEN [c EXCEPT !.pc = nextpc, !.puts_ok = @ + 1]
               ELSE IF outcome = "ok"
               THEN Finished([c EXCEPT !.puts_ok = @ + 1], Reraised("IOError"), NoPhoto)
               ELSE Finished(c, Reraised("IOError"), NoPhoto)]

\* create_thumbnail, lines 211-215, from upload_photo line 264
create_thumbnail(w, outcome) ==
  /\ call[w].pc = "thumbnail"
  /\ IF envType = "development"
     THEN create_local(w, "thumbnail", "300x300", outcome, "original")
     ELSE IF ~Derivable(call[w].file_data, "300x300")
     THEN /\ call' = [call EXCEPT ![w] =
                        Finished(call[w], Reraised("IOError"), NoPhoto)]
          /\ blobs' = blobs
     ELSE create_remote(w, "thumbnail",
                        process_image(call[w].file_data, "300x300"),
                        outcome, "original")
  /\ UNCHANGED <<probe, users, reg, request, validation, envType, photos, delResp, nUploads, nDeletes>>

\* create_original, lines 217-221, from upload_photo line 267; the remote
\* original is the upload as received
create_original(w, outcome) ==
  /\ call[w].pc = "original"
  /\ IF envType = "development"
     THEN create_local(w, "original", "full", outcome, "insert")
     ELSE create_remote(w, "original", <<"raw", call[w].file_data>>,
                        outcome, "insert")
  /\ UNCHANGED <<probe, users, reg, request, validation, envType, photos, delResp, nUploads, nDeletes>>

\* Photo(...) of upload_photo lines 270-277, with the id the insert gives it
NewPhoto(c) ==
  [id |-> NextId, title |-> c.title, hash |-> c.file_hash,
   file_name |-> c.file_name,
   original_path |-> get_output_path(c.file_name, "original"),
   thumbnail_path |-> get_output_path(c.file_name, "thumbnail"),
   collection |-> c.collection]

\* a commit that leaves the added row in the table when it raises
Committed_partial(photo) == photos \cup {photo}

\* the rows of the table after self.db.add(photo); self.db.commit(): the
\* commit that raises IntegrityError writes nothing, and self.db.rollback()
\* drops the pending row
Committed(photo) ==
  IF UniqueViolation(photo) THEN photos ELSE photos \cup {photo}

\* add_photo_to_db: add and commit; on IntegrityError roll back and re-raise
add_photo_to_db(w) ==
  /\ call[w].pc = "insert"
  /\ LET c == call[w]
         photo == NewPhoto(c)
     IN IF UniqueViolation(photo)
        THEN /\ photos' = Committed(photo)
             /\ call' = [call EXCEPT ![w] =
                           Finished(c, Reraised("IntegrityError"), NoPhoto)]
        ELSE /\ photos' = Committed(photo)
             /\ call' = [call EXCEPT ![w] = Finished(c, "ok", photo)]
  /\ UNCHANGED <<probe, users, reg, request, validation, envType, blobs, delResp, nUploads, nDeletes>>

----------------------------------------------------------------------------
(* delete_photos, src/src/routers/admin.py *)

Range(s) == {s[i] : i \in 1..Len(s)}

RECURSIVE ImagePaths(_)
\* lines 322-332: thumbnail_path then original_path of each photo
ImagePaths(photo_ids) ==
  IF photo_ids = << >> THEN << >>
  ELSE LET photo == get_photo_by_id(Head(photo_ids))
       IN <<photo.thumbnail_path, photo.original_path>>
            \o ImagePaths(Tail(photo_ids))

\* the response of the route, with the image_paths given to delete_images
\* (`store_calls` counts the calls) and the lists it returned
Response(status, photo_ids, image_paths, r, store_calls) ==
  [status |-> status, photo_ids |-> photo_ids, image_paths |-> image_paths,
   success |-> r.success, errors |-> r.errors, store_calls |-> store_calls]

NoResult == [success |-> << >>, errors |-> << >>]

\* a route that deletes the row of every photo it was given
CatalogAfterDelete_all(photo_ids, r) ==
  {p \in photos : p.id \notin {photo_ids[i] : i \in 1..Len(photo_ids)}}

\* lines 334-337: the route returns what delete_images reported; it deletes
\* no row of the catalog
CatalogAfterDelete(photo_ids, r) == photos

\* POST /admin/photos/delete. `refused` and `reachable` are the answer of the
\* remote service: the keys it refuses, and whether the call gets through.
delete_photos(photo_ids, refused, reachable) ==
  /\ nDeletes < MaxDeletes
  /\ nDeletes' = nDeletes + 1
  /\ IF photo_ids = << >>
     THEN /\ delResp' = Response("400", photo_ids, << >>, NoResult, 0)
          /\ blobs' = blobs
          /\ photos' = photos
     ELSE IF \E id \in Range(photo_ids) : get_photo_by_id(id) = NoPhoto
     THEN /\ delResp' = Response("500", photo_ids, << >>, NoResult, 0)
          /\ blobs' = blobs
          /\ photos' = photos
     ELSE IF envType # "development" /\ ~reachable
     THEN /\ delResp' = Response("500", photo_ids, ImagePaths(photo_ids),
                                    NoResult, 1)
          /\ blobs' = blobs
          /\ photos' = photos
     ELSE LET image_paths == ImagePaths(photo_ids)
              r == IF envType = "development"
                   THEN LocalStore_delete_images(image_paths, blobs)
                   ELSE RemoteStore_delete_images(image_paths, blobs, refused)
          IN /\ blobs' = r.store
             /\ photos' = CatalogAfterDelete(photo_ids, r)
             /\ delResp' = Response(IF r.errors # << >> THEN "error" ELSE "success",
                                    photo_ids, image_paths, r, 1)
  /\ UNCHANGED <<probe, users, reg, validation, envType, call, nUploads>>

----------------------------------------------------------------------------
\* ids a request may name: more than the catalog can hold
PhotoIds == 1..(MaxUploads + 1)

IdLists == UNION {[1..n -> PhotoIds] : n \in 0..MaxIds}

\* the keys of a request that the remote service may refuse
Refusable(photo_ids) ==
  IF envType = "development" THEN {}
  ELSE UNION {{p.thumbnail_path, p.original_path} :
                p \in {q \in photos : q.id \in Range(photo_ids)}}

\* a delete request arrives, and the remote service answers as it will
delete_request ==
  \E ids \in IdLists :
    \E refused \in SUBSET Refusable(ids),
       reachable \in (IF envType = "development" THEN {TRUE} ELSE BOOLEAN) :
      delete_photos(ids, refused, reachable) /\ UNCHANGED request

\* a call of upload_photo begins
upload_request ==
  \E w \in Workers, u \in Uploads, uuid8 \in Uuid8 :
    upload_begin(w, u, uuid8) /\ UNCHANGED request

Next ==
  \/ upload_request
  \/ \E w \in Workers, o \in PutOutcomes : create_thumbnail(w, o)
  \/ \E w \in Workers, o \in PutOutcomes : create_original(w, o)
  \/ \E w \in Workers : add_photo_to_db(w)
  \/ delete_request

Spec == Init /\ [][Next]_vars

----------------------------------------------------------------------------
(* The image stores on their own: a store holding any of a few objects,   *)
(* and calls of upload_image and delete_images on it                      *)

StorePaths ==
  {get_output_path(<<"a">>, "thumbnail"), get_output_path(<<"a">>, "original"),
   get_output_path(<<"b">>, "thumbnail")}

PathLists == UNION {[1..n -> StorePaths] : n \in 0..(MaxIds + 1)}

InitStore ==
  /\ envType \in {"development", "production"}
  /\ photos = {}
  /\ \E present \in SUBSET StorePaths :
       blobs = {<<path, "imgA">> : path \in present}
  /\ call = [w \in Workers |-> Idle]
  /\ delResp = NoRequest
  /\ nUploads = 0
  /\ nDeletes = 0
  /\ validation = NoValidation
  /\ WebIdle

\* store.upload_image(file_data, path_to_save)
store_upload_image(file_data, path, outcome) ==
  /\ nUploads < MaxUploads
  /\ nUploads' = nUploads + 1
  /\ blobs' = IF envType = "development"
              THEN LocalStore_upload_image(blobs, path, file_data, outcome)
              ELSE RemoteStore_upload_image(blobs, path, file_data, outcome)
  /\ UNCHANGED <<probe, users, reg, request, validation, envType, photos, call, delResp, nDeletes>>

\* store.delete_images(image_paths); a remote call that does not get
\* through raises IOError
store_delete_images(image_paths, refused, reachable) ==
  /\ nDeletes < MaxDeletes
  /\ nDeletes' = nDeletes + 1
  /\ IF envType # "development" /\ ~reachable
     THEN /\ delResp' = Response("IOError", << >>, image_paths, NoResult, 1)
          /\ blobs' = blobs
     ELSE LET r == IF envType = "development"
                   THEN LocalStore_delete_images(image_paths, blobs)
                   ELSE RemoteStore_delete_images(image_paths, blobs, refused)
          IN /\ delResp' = Response("returned", << >>, image_paths, r, 1)
             /\ blobs' = r.store
  /\ UNCHANGED <<probe, users, reg, request, validation, envType, photos, call, nUploads>>

\* a call of delete_images, and the remote service answers as it will
store_delete_call ==
  \E image_paths \in PathLists :
    \E refused \in (IF envType = "development" THEN {{}}
                    ELSE SUBSET Range(image_paths)),
       reachable \in (IF envType = "development" THEN {TRUE} ELSE BOOLEAN) :
      store_delete_images(image_paths, refused, reachable)

NextStore ==
  \/ \E d \in {"imgA", "imgB"}, path \in StorePaths, o \in PutOutcomes :
       store_upload_image(d, path, o)
  \/ store_delete_call

SpecStore == InitStore /\ [][NextStore]_vars

----------------------------------------------------------------------------
(* PhotoValidator, src/src/services/admin_service.py: one validator on    *)
(* one upload. The body of the upload is a sequence of bytes.             *)

\* longest upload body
MaxBody == 5
\* bytes asked of one file.read: stands for size=(1024 * 1024)
ChunkSize == 2

Bytes == {"x", "y"}
Bodies == UNION {[1..n -> Bytes] : n \in 0..MaxBody}
\* Config.max_image_size
MaxImageSizes == {3, 4}
\* file.filename: None, empty, or a name
Filenames == {NoneName, << >>, NameA}
NoneType == "<None>"
\* file.content_type
ContentTypes == {NoneType, "image/jpeg", "image/jpg", "image/png",
                 "image/webp", "image/gif", "text/plain"}

\* the values of ValidTypes
ValidTypes == {"image/jpeg", "image/jpg", "image/png", "image/webp"}

\* the exceptions of validate and what it is to return normally
UnsupportedFileType == "ValueError: Unsupported file type"
ImageTooLarge == "ImageTooLarge: Image too large"
ImageDoesNotExist == "ImageDoesNotExist: Image has no data"
Returned == "ok"

\* check_exist: bool(self.file.filename)
check_exist(filename) == filename \notin {NoneName, << >>}

\* a check that lets every declared type through
check_file_type_any(content_type) == content_type # NoneType

\* check_file_type: file_type in self.valid_types
check_file_type(content_type) == content_type \in ValidTypes

\* a check of the running total made before the chunk is counted
TooLarge_before_add(total, chunk, max_size) == total > max_size

\* a check that also refuses a total equal to max_size
TooLarge_inclusive(total, chunk, max_size) == total + Len(chunk) >= max_size

\* lines 77-78: total += len(chunk); total > self.max_size
TooLarge(total, chunk, max_size) == total + Len(chunk) > max_size

RECURSIVE Join(_)
\* b"".join(chunks)
Join(chunks) ==
  IF chunks = << >> THEN << >> ELSE Head(chunks) \o Join(Tail(chunks))

\* an end of the loop that returns whatever was read
LoopExit_no_empty_check(v) ==
  [v EXCEPT !.pc = "done", !.error = Returned, !.result = Join(v.chunks)]

\* lines 83-86, after the loop: no byte read raises ImageDoesNotExist,
\* otherwise the chunks are joined and returned
LoopExit(v) ==
  IF v.total = 0
  THEN [v EXCEPT !.pc = "done", !.error = ImageDoesNotExist]
  ELSE [v EXCEPT !.pc = "done", !.error = Returned, !.result = Join(v.chunks)]

\* PhotoValidator(file, config) on an upload that has not been read
NewValidation(filename, content_type, body, max_size) ==
  [pc |-> "start", filename |-> filename, content_type |-> content_type,
   max_size |-> max_size, body |-> body, rest |-> body, chunks |-> << >>,
   total |-> 0, reads |-> 0, error |-> "none", result |-> << >>]

InitValidator ==
  /\ envType = "development"
  /\ photos = {}
  /\ blobs = {}
  /\ call = [w \in Workers |-> Idle]
  /\ delResp = NoRequest
  /\ nUploads = 0
  /\ nDeletes = 0
  /\ \E filename \in Filenames, content_type \in ContentTypes,
        body \in Bodies, max_size \in MaxImageSizes :
       validation = NewValidation(filename, content_type, body, max_size)
  /\ WebIdle

\* validate, lines 90-91: the two checks, before any read
validate(v) ==
  /\ v.pc = "start"
  /\ validation' =
       IF ~check_exist(v.filename) \/ ~check_file_type(v.content_type)
       THEN [v EXCEPT !.pc = "done", !.error = UnsupportedFileType]
       ELSE [v EXCEPT !.pc = "read"]
  /\ UNCHANGED <<probe, users, reg, request, envType, photos, blobs, call, delResp, nUploads, nDeletes>>

\* check_file_size, one turn of the loop at lines 72-81: file.read returns
\* the next n bytes of the body, none at its end
check_file_size(v, n) ==
  /\ v.pc = "read"
  /\ IF v.rest = << >> THEN n = 0 ELSE n \in 1..ChunkSize /\ n <= Len(v.rest)
  /\ LET chunk == SubSeq(v.rest, 1, n)
         read == [v EXCEPT !.rest = SubSeq(v.rest, n + 1, Len(v.rest)),
                           !.reads = @ + 1]
     IN validation' =
          IF chunk = << >> THEN LoopExit(read)
          ELSE IF TooLarge(v.total, chunk, v.max_size)
          THEN [read EXCEPT !.pc = "done", !.total = @ + Len(chunk),
                            !.error = ImageTooLarge]
          ELSE [read EXCEPT !.total = @ + Len(chunk),
                            !.chunks = Append(@, chunk)]
  /\ UNCHANGED <<probe, users, reg, request, envType, photos, blobs, call, delResp, nUploads, nDeletes>>

NextValidator ==
  \/ validate(validation)
  \/ \E n \in 0..ChunkSize : check_file_size(validation, n)

SpecValidator == InitValidator /\ [][NextValidator]_vars

----------------------------------------------------------------------------
(* AdminService.sanitize_file on file names of every length up to a bound *)

\* longest stem of a file name given to sanitize_file
MaxStem == 52
\* Photo.file_name: String(length=50)
FileNameMax == 50

\* file names "aaa.j" and "   .j" of every stem length
LongNames ==
  {[i \in 1..n |-> c] \o <<".", "j">> : n \in 0..MaxStem, c \in {"a", " "}}

\* the initial state of a specification that begins before any request
Fresh ==
  /\ envType = "development"
  /\ photos = {}
  /\ blobs = {}
  /\ call = [w \in Workers |-> Idle]
  /\ delResp = NoRequest
  /\ nUploads = 0
  /\ nDeletes = 0
  /\ validation = NoValidation
  /\ WebIdle

\* a call sanitize_file(file_name)
sanitize_call(file_name, uuid8) ==
  /\ probe' = [op |-> "sanitize_file", input |-> file_name,
               output |-> sanitize_file(file_name, uuid8)]
  /\ UNCHANGED <<envType, photos, blobs, call, delResp, nUploads, nDeletes,
                 validation, users, reg, request>>

NextNames == \E file_name \in LongNames, uuid8 \in Uuid8 :
               sanitize_call(file_name, uuid8)

SpecNames == Fresh /\ [][NextNames]_vars

----------------------------------------------------------------------------
(* Queries on the photo table: PhotoService.get_photos_by_collection and  *)
(* the collections of the navigation (src/src/routers/public.py).         *)
(* Collection labels are taken apart by LIKE: sequences of characters.    *)

\* rows of the photo table in these specifications
MaxRows == 3

AboutMe == <<"a", "b", "o", "u", "t", "_", "m", "e">>
\* labels given to photos
Labels == {<<"a", "b">>, <<"a", "c">>, <<"b">>, AboutMe,
           <<"a", "b", "o", "u", "t", "-", "m", "e">>}
\* collection names asked for: /collections/{collection_name}
CollectionNames == Labels \cup {<<"a", "_">>, <<"%">>, <<"z">>}

RECURSIVE Like(_, _)
\* SQL `value LIKE pattern`: "%" stands for any run of characters, "_" for
\* any one character
Like(value, pattern) ==
  IF pattern = << >> THEN value = << >>
  ELSE IF Head(pattern) = "%"
       THEN \/ Like(value, Tail(pattern))
            \/ value # << >> /\ Like(Tail(value), pattern)
       ELSE /\ value # << >>
            /\ Head(pattern) = "_" \/ Head(pattern) = Head(value)
            /\ Like(Tail(value), Tail(pattern))

\* select(Photo).where(Photo.collection.like(collection_name)) ... all()
get_photos_by_collection(collection_name) ==
  {p \in photos : Like(p.collection, collection_name)}

RECURSIVE SetToSeq(_)
\* the elements of a set in some order
SetToSeq(S) ==
  IF S = {} THEN << >>
  ELSE LET x == CHOOSE x \in S : TRUE IN <<x>> \o SetToSeq(S \ {x})

\* PhotoService.get_unique_collections: the distinct collection labels of
\* the table
get_unique_collections == SetToSeq({p.collection : p \in photos})

\* get_collections_for_nav: the collections that are not "about_me"
get_collections_for_nav ==
  SelectSeq(get_unique_collections, LAMBDA collection : collection # AboutMe)

\* a row is added to the photo table (add_photo_to_db of an upload whose
\* blobs are written)
catalog_insert(hash, label) ==
  /\ Cardinality(photos) < MaxRows
  /\ LET c == [title |-> "t", file_hash |-> get_hash(hash),
               file_name |-> <<hash>>, collection |-> label]
     IN photos' = Committed(NewPhoto(c))
  /\ photos' # photos
  /\ UNCHANGED <<envType, blobs, call, delResp, nUploads, nDeletes,
                 validation, users, reg, request>>

\* GET /collections/{collection_name}: the photos of the page
collection_page(collection_name) ==
  /\ probe' = [op |-> "get_photos_by_collection", input |-> collection_name,
               output |-> get_photos_by_collection(collection_name)]
  /\ UNCHANGED <<envType, photos, blobs, call, delResp, nUploads, nDeletes,
                 validation, users, reg, request>>

\* a row is added once the page has been answered
insert_after_page ==
  \E hash \in {"h1", "h2", "h3"}, label \in Labels :
    catalog_insert(hash, label) /\ probe' = NoProbe

NextCatalog ==
  \/ insert_after_page
  \/ \E collection_name \in CollectionNames : collection_page(collection_name)

SpecCatalog == Fresh /\ [][NextCatalog]_vars

\* public.py line 36, run once when the module is imported:
\* templates.env.globals["collections"] = get_collections_for_nav()
import_public ==
  /\ probe = NoProbe
  /\ probe' = [op |-> "collections", input |-> << >>,
               output |-> get_collections_for_nav]
  /\ UNCHANGED <<envType, photos, blobs, call, delResp, nUploads, nDeletes,
                 validation, users, reg, request>>

\* a row is added, before the application starts or while it runs
insert_any_time ==
  \E hash \in {"h1", "h2", "h3"}, label \in Labels :
    catalog_insert(hash, label) /\ UNCHANGED probe

NextNav ==
  \/ insert_any_time
  \/ import_public

SpecNav == Fresh /\ [][NextNav]_vars

----------------------------------------------------------------------------
(* AdminService.delete_photos, the service the delete of several photos   *)
(* goes through: the rows of the photos whose two blobs were deleted are  *)
(* removed in one transaction of the session.                             *)

DeleteService == "AdminService.delete_photos"

\* the ids of photo_ids that resolve to a row, in request order
RECURSIVE Resolved(_)
Resolved(photo_ids) ==
  IF photo_ids = << >> THEN << >>
  ELSE IF get_photo_by_id(Head(photo_ids)) = NoPhoto
       THEN Resolved(Tail(photo_ids))
       ELSE <<Head(photo_ids)>> \o Resolved(Tail(photo_ids))

\* the rows whose thumbnail and original are both in the succeeded list
Removable(photo_ids, success) ==
  {p \in photos : /\ p.id \in Range(photo_ids)
                  /\ p.thumbnail_path \in Range(success)
                  /\ p.original_path \in Range(success)}

\* a session that keeps the rows it deleted before the failure deleted
RolledBack_per_row(pending) == photos \ pending

\* the table after a failure partway: the transaction is rolled back
RolledBack(pending) == photos

\* the call begins: the ids are resolved and the blobs of the resolved
\* photos are deleted in one call of the store
service_delete_begin(photo_ids, refused) ==
  /\ IF request.route = "none" THEN TRUE
     ELSE request.pc \in {"done", "failed"}
  /\ nDeletes < MaxDeletes
  /\ nDeletes' = nDeletes + 1
  /\ LET ids == Resolved(photo_ids)
         r == IF envType = "development"
              THEN LocalStore_delete_images(ImagePaths(ids), blobs)
              ELSE RemoteStore_delete_images(ImagePaths(ids), blobs, refused)
     IN /\ blobs' = r.store
        /\ request' = [route |-> DeleteService, pc |-> "rows",
                       removable |-> Removable(ids, r.success),
                       pending |-> {}]
  /\ UNCHANGED <<envType, photos, call, delResp, nUploads, validation,
                 users, reg, probe>>

\* session.delete of one more row of the request; `ok` is whether the
\* database takes it
service_delete_row(p, ok) ==
  /\ request.route = DeleteService
  /\ request.pc = "rows"
  /\ p \in request.removable \ request.pending
  /\ IF ok
     THEN /\ request' = [request EXCEPT !.pending = @ \cup {p}]
          /\ photos' = photos
     ELSE /\ request' = [request EXCEPT !.pc = "failed"]
          /\ photos' = RolledBack(request.pending)
  /\ UNCHANGED <<envType, blobs, call, delResp, nUploads, nDeletes,
                 validation, users, reg, probe>>

\* the commit of the transaction: every row of the request goes at once
service_delete_commit ==
  /\ request.route = DeleteService
  /\ request.pc = "rows"
  /\ request.pending = request.removable
  /\ request' = [request EXCEPT !.pc = "done"]
  /\ photos' = photos \ request.pending
  /\ UNCHANGED <<envType, blobs, call, delResp, nUploads, nDeletes,
                 validation, users, reg, probe>>

InitDeleteService ==
  /\ envType \in {"development", "production"}
  /\ photos = {}
  /\ blobs = {}
  /\ call = [w \in Workers |-> Idle]
  /\ delResp = NoRequest
  /\ nUploads = 0
  /\ nDeletes = 0
  /\ validation = NoValidation
  /\ WebIdle

\* a call of the service arrives, and the remote service answers as it will
service_delete_call ==
  \E ids \in IdLists : \E refused \in SUBSET Refusable(ids) :
    service_delete_begin(ids, refused)

service_delete_rows ==
  \E p \in photos, ok \in BOOLEAN : service_delete_row(p, ok)

\* a row is added, before or between the steps of a call
service_insert ==
  \E hash \in {"h1", "h2"}, label \in {<<"a", "b">>, <<"b">>} :
    catalog_insert(hash, label) /\ UNCHANGED probe

NextDeleteService ==
  \/ service_insert
  \/ service_delete_call
  \/ service_delete_rows
  \/ service_delete_commit

SpecDeleteService == InitDeleteService /\ [][NextDeleteService]_vars

----------------------------------------------------------------------------
(* The protected routes of src/src/routers/admin.py: each is declared with *)
(* dependencies=[Depends(get_current_user)].                              *)

NoUser == [email |-> "<None>"]
AdminRow == [email |-> "a@x", user_type |-> "admin"]

\* the access_token cookie of a request: absent, empty, or a token with its
\* "sub" and whether jwt.decode accepts it (signature and expiry)
NoCookie == [kind |-> "none"]
EmptyCookie == [kind |-> "empty"]
Token(sub, signed) == [kind |-> "token", sub |-> sub, signed |-> signed]
Cookies == {NoCookie, EmptyCookie, Token("a@x", TRUE), Token("a@x", FALSE),
            Token("b@x", TRUE), Token(NoneType, TRUE)}

\* AuthService.get_user_by_email
get_user_by_email(email) ==
  IF \E u \in users : u.email = email
  THEN CHOOSE u \in users : u.email = email
  ELSE NoUser

\* AuthService.verify_access_token: PyJWTError and a missing "sub" give None
verify_access_token(token) ==
  IF ~token.signed THEN NoUser
  ELSE IF token.sub = NoneType THEN NoUser
  ELSE get_user_by_email(token.sub)

\* get_current_user: what the dependency does, a return or a raise
get_current_user(access_token) ==
  IF access_token \in {NoCookie, EmptyCookie} THEN "return RedirectResponse"
  ELSE IF verify_access_token(access_token) = NoUser THEN "raise 401"
  ELSE "return user"

\* the value a route-level dependency returns is dropped: the handler is
\* called unless the dependency raised
HandlerRuns(access_token) == get_current_user(access_token) # "raise 401"

Protected(route, access_token, ran) ==
  [route |-> route, access_token |-> access_token, ran |-> ran]

\* POST /admin/upload, up to the call of upload_photo
protected_upload(access_token, w, u, uuid8) ==
  IF HandlerRuns(access_token)
  THEN /\ upload_begin(w, u, uuid8)
       /\ request' = Protected("uploads_photo", access_token, TRUE)
  ELSE /\ request' = Protected("uploads_photo", access_token, FALSE)
       /\ UNCHANGED <<envType, photos, blobs, call, delResp, nUploads,
                      nDeletes, validation, users, reg, probe>>

\* POST /admin/photos/delete
protected_delete(access_token, photo_ids, refused, reachable) ==
  IF HandlerRuns(access_token)
  THEN /\ delete_photos(photo_ids, refused, reachable)
       /\ request' = Protected("delete_photos", access_token, TRUE)
  ELSE /\ request' = Protected("delete_photos", access_token, FALSE)
       /\ UNCHANGED <<envType, photos, blobs, call, delResp, nUploads,
                      nDeletes, validation, users, reg, probe>>

\* GET /admin/photos: the body reads the photo table
protected_view(access_token) ==
  /\ request' = Protected("view_photos", access_token,
                          HandlerRuns(access_token))
  /\ UNCHANGED <<envType, photos, blobs, call, delResp, nUploads,
                 nDeletes, validation, users, reg, probe>>

\* the uploads sent in these requests
AuthUploads == {Upload("dawn", NameA, "img1", "nature"),
                Upload("dusk", NameB, "img2", "city")}

upload_route ==
  \E access_token \in Cookies, u \in AuthUploads :
    protected_upload(access_token, "w1", u,
                     <<"0", "0", "0", "0", "0", "0", "0", "1">>)

delete_route ==
  \E access_token \in Cookies, ids \in {<< >>, <<1>>, <<1, 2>>} :
    \E refused \in SUBSET Refusable(ids),
       reachable \in (IF envType = "development" THEN {TRUE} ELSE BOOLEAN) :
      protected_delete(access_token, ids, refused, reachable)

view_route == \E access_token \in Cookies : protected_view(access_token)

\* the steps of upload_photo leave the request alone
upload_steps ==
  /\ \/ \E o \in PutOutcomes : create_thumbnail("w1", o)
     \/ \E o \in PutOutcomes : create_original("w1", o)
     \/ add_photo_to_db("w1")
  /\ UNCHANGED request

\* the user_account table is as the application finds it
InitAuth ==
  /\ envType \in {"development", "production"}
  /\ photos = {}
  /\ blobs = {}
  /\ call = [w \in Workers |-> Idle]
  /\ delResp = NoRequest
  /\ nUploads = 0
  /\ nDeletes = 0
  /\ validation = NoValidation
  /\ users \in {{}, {AdminRow}}
  /\ reg = [w \in Workers |-> Idle]
  /\ request = NoProtected
  /\ probe = NoProbe

NextAuth ==
  \/ upload_route
  \/ upload_steps
  \/ delete_route
  \/ view_route

SpecAuth == InitAuth /\ [][NextAuth]_vars

----------------------------------------------------------------------------
(* POST /admin/register: register_user, AuthService.admin_exists and      *)
(* AuthService.create_user. The workers are server processes on one       *)
(* database; a registration checks, then creates.                         *)

\* a User class with the fields create_user passes
UserFields_as_called ==
  {"firstname", "lastname", "email", "hashed_password", "user_type",
   "is_enabled"}

\* the fields of the dataclass User that its constructor takes, none with a
\* default (id and comments are init=False)
UserFields == {"name", "email", "hashed_password", "user_type"}

\* keywords of the call User(...) in create_user
CreateUserKeywords ==
  {"firstname", "lastname", "email", "hashed_password", "user_type",
   "is_enabled"}

Emails == {"a@x", "b@x", "c@x"}

Admins == {u \in users : u.user_type = "admin"}

\* admin_exists: one_or_none() of the admin rows
admin_exists ==
  IF Cardinality(Admins) > 1 THEN "MultipleResultsFound"
  ELSE IF Admins = {} THEN "False"
  ELSE "True"

\* the answer to the registration of `email`
Registered(email, step, result) ==
  [pc |-> "done", email |-> email, step |-> step, result |-> result]

\* register_user up to the call of create_user
register_check(w, email) ==
  /\ reg[w].pc \in {"idle", "done"}
  /\ reg' = [reg EXCEPT ![w] =
       IF admin_exists = "MultipleResultsFound"
       THEN Registered(email, "admin_exists", "MultipleResultsFound")
       ELSE IF admin_exists = "True"
       THEN Registered(email, "admin_exists", "403")
       ELSE IF get_user_by_email(email) # NoUser
       THEN Registered(email, "get_user_by_email", "400")
       ELSE [pc |-> "create", email |-> email]]
  /\ UNCHANGED <<envType, photos, blobs, call, delResp, nUploads, nDeletes,
                 validation, users, request, probe>>

\* create_user: User(...), add, commit; IntegrityError rolls back
create_user(w) ==
  /\ reg[w].pc = "create"
  /\ IF ~CallBinds(CreateUserKeywords, UserFields)
     THEN /\ reg' = [reg EXCEPT ![w] = Registered(reg[w].email, "create_user", "TypeError")]
          /\ users' = users
     ELSE IF get_user_by_email(reg[w].email) # NoUser
     THEN /\ reg' = [reg EXCEPT ![w] =
                       Registered(reg[w].email, "create_user",
                                  "IntegrityError")]
          /\ users' = users
     ELSE /\ reg' = [reg EXCEPT ![w] = Registered(reg[w].email, "create_user", "303")]
          /\ users' = users \cup
                        {[email |-> reg[w].email, user_type |-> "admin"]}
  /\ UNCHANGED <<envType, photos, blobs, call, delResp, nUploads, nDeletes,
                 validation, request, probe>>

\* GET /admin/register: the form, or a redirect to the login when an admin
\* exists
registration_form ==
  /\ probe' = [op |-> "register_form", input |-> << >>,
               output |-> IF admin_exists = "MultipleResultsFound"
                          THEN "MultipleResultsFound"
                          ELSE IF admin_exists = "True" THEN "303"
                          ELSE "register.html"]
  /\ UNCHANGED <<envType, photos, blobs, call, delResp, nUploads, nDeletes,
                 validation, users, reg, request>>

\* the user_account table is as the application finds it
InitRegister ==
  /\ envType = "development"
  /\ photos = {}
  /\ blobs = {}
  /\ call = [w \in Workers |-> Idle]
  /\ delResp = NoRequest
  /\ nUploads = 0
  /\ nDeletes = 0
  /\ validation = NoValidation
  /\ users \in {{}, {AdminRow}, {[email |-> "b@x", user_type |-> "user"]}}
  /\ reg = [w \in Workers |-> Idle]
  /\ request = NoProtected
  /\ probe = NoProbe

NextRegister ==
  \/ \E w \in Workers, email \in Emails : register_check(w, email)
  \/ \E w \in Workers : create_user(w)
  \/ registration_form

SpecRegister == InitRegister /\ [][NextRegister]_vars

----------------------------------------------------------------------------
(* Properties *)

\* worker w begins a call of upload_photo in this step
BeginStep(w) ==
  /\ nUploads' = nUploads + 1
  /\ call'[w].pc # "idle"
  /\ call'[w].seq = nUploads'

\* a delete_photos request is served in this step
DeleteStep == nDeletes' = nDeletes + 1

Quiescent == \A w \in Workers : call[w].pc \in {"idle", "done"}

\* C1: upload_photo called (with a file name, as its signature asks) with
\* bytes whose hash is on a committed row fails with the duplicate error
\* (ValueError "Duplicate Photo"); the store holds the same blobs after the
\* call as before it and no row is added.
C1_DuplicateUploadWritesNothing ==
  [][\A w \in Workers :
       (/\ BeginStep(w)
        /\ call'[w].name # NoneName
        /\ \E p \in photos : p.hash = get_hash(call'[w].file_data))
       => (/\ call'[w].pc = "done"
           /\ call'[w].error = "ValueError"
           /\ blobs' = blobs
           /\ photos' = photos)]_vars

C1_Witness ==
  \E w \in Workers :
    /\ call[w].pc = "done"
    /\ call[w].error = "ValueError"
    /\ call[w].puts_ok = 0
    /\ \E p \in photos : p.hash = get_hash(call[w].file_data)

\* C2: in every reachable state, whatever the interleaving of uploads and
\* deletes, no two committed Photo rows have the same hash.
C2_HashUnique ==
  \A p1, p2 \in photos : p1.hash = p2.hash => p1 = p2

\* two uploads of the same bytes both passed the duplicate check and wrote
\* their blobs; one committed, the insert of the other was refused
C2_Witness ==
  \E w1, w2 \in Workers :
    /\ w1 # w2
    /\ call[w1].pc = "done" /\ call[w1].error = "ok"
    /\ call[w2].pc = "done" /\ call[w2].error = "Exception"
    /\ call[w2].puts_ok = 2
    /\ call[w1].file_data = call[w2].file_data
    /\ call[w1].collection # call[w2].collection
    /\ call[w1].ret \in photos

\* C3: once every upload and delete request has run to completion, every
\* committed Photo row has its thumbnail_path blob and its original_path
\* blob in the store.
C3_RowsHaveBlobs ==
  Quiescent =>
    \A p \in photos :
      /\ p.thumbnail_path \in Paths(blobs)
      /\ p.original_path \in Paths(blobs)

\* C4: a delete that reports both blobs of a photo as deleted removes the
\* photo's row: a lookup by its id then finds nothing.
C4_DeletedBlobsRemoveRow ==
  [][DeleteStep =>
       \A p \in photos :
         (/\ p.id \in Range(delResp'.photo_ids)
          /\ p.thumbnail_path \in Range(delResp'.success)
          /\ p.original_path \in Range(delResp'.success))
         => ~(\E q \in photos' : q.id = p.id)]_vars

\* C5: a row leaves the catalog only in a delete whose succeeded list holds
\* both its thumbnail_path and its original_path, and a delete that reports
\* either path as failed leaves the row as it was.
C5_RowRemovedOnlyIfBothSucceeded ==
  [][\A p \in photos :
       /\ p \notin photos' =>
            (/\ DeleteStep
             /\ p.thumbnail_path \in Range(delResp'.success)
             /\ p.original_path \in Range(delResp'.success))
       /\ (/\ DeleteStep
           /\ p.id \in Range(delResp'.photo_ids)
           /\ \/ p.thumbnail_path \in Range(delResp'.errors)
              \/ p.original_path \in Range(delResp'.errors))
          => p \in photos']_vars

\* a delete reported one blob of a photo deleted and the other failed, and
\* the row is there
C5_Witness ==
  \E p \in photos :
    /\ delResp.status = "error"
    /\ p.id \in Range(delResp.photo_ids)
    /\ p.thumbnail_path \in Range(delResp.success)
    /\ p.original_path \in Range(delResp.errors)
    /\ p.original_path \notin Range(delResp.success)

\* C6: a delete request whose only id resolves to no row completes normally
\* (no error status) and makes no call of the store.
C6_UnknownIdCompletes ==
  [][(/\ DeleteStep
      /\ Len(delResp'.photo_ids) = 1
      /\ get_photo_by_id(delResp'.photo_ids[1]) = NoPhoto)
     => (/\ delResp'.status \notin {"400", "500"}
         /\ delResp'.store_calls = 0)]_vars

\* C7: in a delete request with ids that resolve and ids that do not, the
\* blobs of every id that resolves are given to the store for deletion.
C7_ResolvableStillDeleted ==
  [][DeleteStep =>
       \A p \in photos :
         p.id \in Range(delResp'.photo_ids) =>
           /\ p.thumbnail_path \in Range(delResp'.image_paths)
           /\ p.original_path \in Range(delResp'.image_paths)]_vars

\* C8: LocalStore.delete_images reports a path that is not on disk in its
\* succeeded list.
C8_MissingPathSucceeds ==
  [][(DeleteStep /\ envType = "development") =>
       \A path \in Range(delResp'.image_paths) :
         path \notin Paths(blobs) => path \in Range(delResp'.success)]_vars

\* C9: for every input list of paths, also one that names a path twice,
\* delete_images returns each input path in exactly one of succeeded and
\* failed, and no path that was not in its input.
C9_StrictPartition ==
  [][(DeleteStep /\ delResp'.status \in {"returned", "success", "error"}) =>
       /\ \A path \in Range(delResp'.image_paths) :
            (path \in Range(delResp'.success))
              # (path \in Range(delResp'.errors))
       /\ Range(delResp'.success) \cup Range(delResp'.errors)
            \subseteq Range(delResp'.image_paths)]_vars

\* C10: an upload whose hash is new (no committed row carries it, nor its
\* storage name), whose bytes decoded and whose two puts succeeded returns
\* the committed Photo with the given title and collection, and adds
\* exactly one row.
C10_UploadCommits ==
  [][\A w \in Workers :
       (/\ call[w].pc = "insert"
        /\ call'[w].pc = "done"
        /\ call[w].puts_ok = 2
        /\ Decodable(call[w].file_data)
        /\ \A p \in photos : /\ p.hash # call[w].file_hash
                             /\ p.file_name # call[w].file_name)
       => (/\ call'[w].error = "ok"
           /\ call'[w].ret.title = call[w].title
           /\ call'[w].ret.collection = call[w].collection
           /\ call'[w].ret \notin photos
           /\ photos' = photos \cup {call'[w].ret})]_vars

\* the size of the rendition made at a position of upload_photo
RenditionSize(pc) == IF pc = "thumbnail" THEN "300x300" ELSE "full"

\* the call of worker w ends in this step because _process_image raised
DeriveFails(w) ==
  /\ call[w].pc \in {"thumbnail", "original"}
  /\ call'[w].pc = "done"
  /\ call[w].pc = "original" => envType = "development"
  /\ ~Derivable(call[w].file_data, RenditionSize(call[w].pc))

\* C11: when deriving the thumbnail or the normalized original fails in
\* upload_photo, the store holds no blob of this upload: neither its
\* thumbnail path nor its original path has been written.
C11_DeriveFailsBeforePut ==
  [][\A w \in Workers :
       DeriveFails(w) =>
         /\ get_output_path(call[w].file_name, "thumbnail") \notin Paths(blobs')
         /\ get_output_path(call[w].file_name, "original") \notin Paths(blobs')]_vars

\* the call of worker w ends in this step at a put: the rendition was
\* derived and the call of the store was made
PutEnds(w) ==
  /\ call[w].pc \in {"thumbnail", "original"}
  /\ call'[w].pc = "done"
  /\ IF envType = "development"
     THEN Derivable(call[w].file_data, RenditionSize(call[w].pc))
     ELSE /\ CallBinds(UploadImageKeywords, UploadImageParams)
          /\ call[w].pc = "thumbnail" => Derivable(call[w].file_data, "300x300")

\* C12: when the put of the thumbnail or of the original fails, upload_photo
\* raises the storage I/O error (IOError) and commits no Photo row; the call
\* has ended, so it commits none later.
C12_PutFailureCommitsNothing ==
  [][\A w \in Workers :
       PutEnds(w) =>
         /\ call'[w].error = "IOError"
         /\ call'[w].ret = NoPhoto
         /\ photos' = photos]_vars

\* the thumbnail was written, the put of the original failed, and no row has
\* the hash of the upload
C12_Witness ==
  \E w \in Workers :
    /\ call[w].pc = "done"
    /\ call[w].error = "IOError"
    /\ call[w].puts_ok = 1
    /\ Derivable(call[w].file_data, "full")
    /\ ~photo_hash_exists(get_hash(call[w].file_data))

\* the call of worker w leaves add_photo_to_db in this step
InsertStep(w) == call[w].pc = "insert" /\ call'[w].pc = "done"

\* C13: an upload that passed the duplicate check and whose insert meets a
\* committed row of the same hash commits nothing and fails with the error
\* of the duplicate check (ValueError), so that of two such uploads exactly
\* one commits.
C13_LosingInsertIsDuplicateError ==
  [][\A w \in Workers :
       (InsertStep(w) /\ photo_hash_exists(call[w].file_hash)) =>
         /\ call'[w].error = "ValueError"
         /\ photos' = photos]_vars

\* the bytes a blob was made from: the last field of its content
BlobSource(content) == content[Len(content)]

\* C14: in every reachable state the store holds at most one thumbnail and
\* at most one original made from the same bytes, and an upload that fails
\* its duplicate check writes no blob.
C14_OneCopyPerContent ==
  /\ [](\A b1, b2 \in blobs :
          (/\ b1[2] # "partial" /\ b2[2] # "partial"
           /\ b1[1][2] = b2[1][2]
           /\ BlobSource(b1[2]) = BlobSource(b2[2])) => b1 = b2)
  /\ [][\A w \in Workers :
         (BeginStep(w) /\ call'[w].pc = "done"
          /\ call'[w].error = "ValueError") => blobs' = blobs]_vars

\* C15: an add_photo_to_db whose row violates a unique column leaves the
\* table with the rows it had, and raises: the upload ends with an error
\* and returns no Photo.
C15_FailedInsertLeavesCatalog ==
  [][\A w \in Workers :
       (/\ InsertStep(w)
        /\ \E p \in photos :
             \/ p.hash = call[w].file_hash
             \/ p.file_name = call[w].file_name
             \/ p.collection = call[w].collection) =>
         /\ photos' = photos
         /\ call'[w].error # "ok"
         /\ call'[w].ret = NoPhoto]_vars

\* an insert was refused on a row of the same hash, after both puts; the
\* table holds the one row of that hash
C15_Witness ==
  \E w \in Workers :
    /\ call[w].pc = "done"
    /\ call[w].error = "Exception"
    /\ call[w].puts_ok = 2
    /\ \E p \in photos :
         /\ p.hash = get_hash(call[w].file_data)
         /\ p.collection # call[w].collection
         /\ p.title # call[w].title

\* C16: while check_file_size reads the upload in chunks, the bytes in its
\* buffer never total more than max_image_size; the running total is over
\* max_image_size exactly when it has failed with ImageTooLarge, which it
\* does at the chunk that takes the total over; that chunk is the last one
\* read and the bytes after it stay unread.
C16_TooLargeAtFirstExcess ==
  /\ Len(Join(validation.chunks)) <= validation.max_size
  /\ validation.total > validation.max_size
       <=> (validation.pc = "done" /\ validation.error = ImageTooLarge)
  /\ validation.error = ImageTooLarge =>
       /\ validation.reads = Len(validation.chunks) + 1
       /\ validation.total - Len(Join(validation.chunks)) <= ChunkSize
       /\ Len(validation.body) = validation.total + Len(validation.rest)

\* the buffer was full to max_image_size, the next chunk failed the upload,
\* and bytes of the body are still unread
C16_Witness ==
  /\ validation.pc = "done"
  /\ validation.error = ImageTooLarge
  /\ Len(validation.chunks) >= 2
  /\ Len(Join(validation.chunks)) = validation.max_size
  /\ validation.rest # << >>

\* C17: for an upload with a filename, an allowed content type and a body
\* of length L, 0 < L <= max_image_size, validate returns the chunks joined
\* in the order read, which is the body of the upload.
C17_ValidateReturnsBody ==
  (/\ validation.pc = "done"
   /\ check_exist(validation.filename)
   /\ validation.content_type \in ValidTypes
   /\ 0 < Len(validation.body)
   /\ Len(validation.body) <= validation.max_size)
  => (/\ validation.error = Returned
      /\ validation.result = validation.body)

\* a body of exactly max_image_size bytes, not all the same, read in three
\* chunks or more, was returned
C17_Witness ==
  /\ validation.pc = "done"
  /\ validation.error = Returned
  /\ Len(validation.body) = validation.max_size
  /\ Len(validation.chunks) >= 3
  /\ \E i, j \in 1..Len(validation.body) :
       validation.body[i] # validation.body[j]

\* C18: validating an upload with a filename and an allowed content type
\* whose stream yields no byte fails with ImageDoesNotExist, which is not
\* the error of an upload that is too large.
C18_EmptyUploadFails ==
  (/\ validation.pc = "done"
   /\ check_exist(validation.filename)
   /\ validation.content_type \in ValidTypes
   /\ validation.body = << >>)
  => (/\ validation.error = ImageDoesNotExist
      /\ validation.error # ImageTooLarge)

\* the one read of an empty body ended the validation
C18_Witness ==
  /\ validation.pc = "done"
  /\ validation.body = << >>
  /\ validation.reads = 1
  /\ validation.error = ImageDoesNotExist

\* C19: validating an upload with no filename fails with an error that is
\* not the error raised for a content type that is not allowed.
C19_MissingFilenameDistinct ==
  (validation.pc = "done" /\ ~check_exist(validation.filename))
  => (/\ validation.error # Returned
      /\ validation.error # UnsupportedFileType)

\* C20: validate fails with the unsupported-type error whenever the content
\* type is none of image/jpeg, image/jpg, image/png, image/webp, also when
\* it is None, and then it has read nothing of the upload.
C20_UnsupportedTypeReadsNothing ==
  (/\ validation.pc = "done"
   /\ validation.content_type
        \notin {"image/jpeg", "image/jpg", "image/png", "image/webp"})
  => (/\ validation.error = UnsupportedFileType
      /\ validation.reads = 0
      /\ validation.rest = validation.body)

\* an upload with a filename, a body and no content type was refused
C20_Witness ==
  /\ validation.pc = "done"
  /\ validation.content_type = NoneType
  /\ check_exist(validation.filename)
  /\ validation.body # << >>
  /\ validation.error = UnsupportedFileType

\* C21: the error upload_photo raises for bytes that are no image is of
\* another kind than the error it raises when a write to the store fails
\* (IOError), so a caller can tell the two apart.
C21_DecodeErrorDistinct ==
  [][\A w \in Workers :
       (DeriveFails(w) /\ ~Decodable(call[w].file_data)) =>
         /\ call'[w].error # "ok"
         /\ call'[w].error # Reraised("IOError")]_vars

\* C22: two calls of sanitize_file with the same input filename return
\* different storage names (here: two uploads in progress), and file_name,
\* thumbnail_path and original_path are each unique across the committed
\* rows.
C22_StorageNamesDiffer ==
  /\ \A w1, w2 \in Workers :
       (/\ w1 # w2
        /\ call[w1].pc \in {"thumbnail", "original", "insert"}
        /\ call[w2].pc \in {"thumbnail", "original", "insert"}
        /\ call[w1].name = call[w2].name)
       => call[w1].file_name # call[w2].file_name
  /\ \A p1, p2 \in photos :
       (\/ p1.file_name = p2.file_name
        \/ p1.thumbnail_path = p2.thumbnail_path
        \/ p1.original_path = p2.original_path) => p1 = p2

\* C23: upload_photo called with file_name = None returns None without
\* raising, writes no blob and commits no row.
C23_NoneFilenameReturnsNone ==
  [][\A w \in Workers :
       (BeginStep(w) /\ call'[w].name = NoneName) =>
         /\ call'[w].pc = "done"
         /\ call'[w].error = "ok"
         /\ call'[w].ret = NoPhoto
         /\ blobs' = blobs
         /\ photos' = photos]_vars

\* C24: the insert of a Photo whose collection is that of a committed row,
\* and whose hash, file_name and paths are on no committed row, commits:
\* the table has one row more, in the same collection.
C24_CollectionShared ==
  [][\A w \in Workers :
       (/\ InsertStep(w)
        /\ \E p \in photos : p.collection = call[w].collection
        /\ \A p \in photos :
             /\ p.hash # call[w].file_hash
             /\ p.file_name # call[w].file_name
             /\ p.original_path # get_output_path(call[w].file_name, "original")
             /\ p.thumbnail_path # get_output_path(call[w].file_name, "thumbnail"))
       => (/\ call'[w].error = "ok"
           /\ Cardinality(photos') = Cardinality(photos) + 1
           /\ \E p \in photos' \ photos :
                p.collection = call[w].collection)]_vars

\* C30: for every input filename the storage name sanitize_file returns is
\* at most 50 characters long, the length of the file_name column of the
\* photo table.
C30_NameFitsColumn ==
  probe.op = "sanitize_file" => Len(probe.output) <= FileNameMax

\* C25: for every collection name N and every catalog,
\* get_photos_by_collection(N) returns exactly the committed rows whose
\* collection is equal to N.
C25_ByCollectionExact ==
  probe.op = "get_photos_by_collection" =>
    probe.output = {p \in photos : p.collection = probe.input}

\* C27: the list of collections the navigation shows never holds the label
\* "about_me", and holds every other label that has a photo exactly once.
C27_NavCollections ==
  probe.op = "collections" =>
    /\ AboutMe \notin Range(probe.output)
    /\ \A label \in {p.collection : p \in photos} \ {AboutMe} :
         Cardinality({i \in 1..Len(probe.output) : probe.output[i] = label}) = 1

Authenticated(access_token) ==
  /\ access_token \notin {NoCookie, EmptyCookie}
  /\ verify_access_token(access_token) # NoUser

\* C28: a request to a protected route without an access_token cookie, or
\* with a token that does not verify to an existing user, does not run the
\* body of the handler: it writes and deletes no blob and changes no row.
C28_BodyNeedsUser ==
  [][(/\ request'.route # "none"
      /\ request' # request \/ nUploads' # nUploads \/ nDeletes' # nDeletes
      /\ ~Authenticated(request'.access_token))
     => /\ ~request'.ran
        /\ blobs' = blobs /\ photos' = photos /\ call' = call
        /\ delResp' = delResp]_vars

====
